---- MODULE Spec2Model ----
(***************************************************************************)
(* SmoothTriangle (src/src/objects/smooth_triangle.rs): construction, the  *)
(* Moller-Trumbore intersection, the interpolated normal and the attachment*)
(* of a triangle to a Group.                                               *)
(*                                                                         *)
(* Numbers.  An f32 is modelled by an exact rational <<n, d>> in lowest    *)
(* terms with d >= 0; d = 0 encodes the IEEE special values: <<1,0>> is    *)
(* +inf, <<-1,0>> is -inf and <<0,0>> is NaN.  Rounding of f32 is not      *)
(* modelled: every value is the exact result of the operation.             *)
(***************************************************************************)
EXTENDS Integers, Sequences, FiniteSets, TLC

VARIABLES tri, groups, call, res

vars == <<tri, groups, call, res>>

----------------------------------------------------------------------------
(* Bounds of the model *)

\* longest ancestor chain (parent_inverses) the model lets a triangle reach
MaxInverses == 2

\* ray origins lie on the half-unit grid x = -MaxGrid/2 .. MaxGrid/2
MaxGrid == 2

----------------------------------------------------------------------------
(* f32 arithmetic as exact rationals with inf and NaN *)

Abs(i) == IF i < 0 THEN -i ELSE i

Sgn(i) == IF i < 0 THEN -1 ELSE IF i > 0 THEN 1 ELSE 0

RECURSIVE GCD(_, _)
GCD(a, b) == IF b = 0 THEN a ELSE GCD(b, a % b)

\* the rational n/d in lowest terms (d >= 0)
Norm(n, d) ==
    IF d = 0 THEN <<Sgn(n), 0>>
    ELSE LET g == GCD(Abs(n), d) IN <<n \div g, d \div g>>

Rat(n, d) == Norm(n, d)

Zero == <<0, 1>>

One == <<1, 1>>

NaN == <<0, 0>>

IsNaN(a) == a[1] = 0 /\ a[2] = 0

IsFinite(a) == a[2] > 0

RNeg(a) == <<-a[1], a[2]>>

RAbs(a) == <<Abs(a[1]), a[2]>>

RAdd(a, b) ==
    IF IsNaN(a) \/ IsNaN(b) THEN NaN
    ELSE IF a[2] = 0 /\ b[2] = 0 THEN (IF a[1] = b[1] THEN a ELSE NaN)
    ELSE IF a[2] = 0 THEN a
    ELSE IF b[2] = 0 THEN b
    ELSE LET g == GCD(a[2], b[2])
         IN  Norm(a[1] * (b[2] \div g) + b[1] * (a[2] \div g), (a[2] \div g) * b[2])

RSub(a, b) == RAdd(a, RNeg(b))

RMul(a, b) ==
    IF a[2] = 0 \/ b[2] = 0 THEN <<Sgn(a[1]) * Sgn(b[1]), 0>>
    ELSE LET g1 == GCD(Abs(a[1]), b[2])
             g2 == GCD(Abs(b[1]), a[2])
         IN  Norm((a[1] \div g1) * (b[1] \div g2), (a[2] \div g2) * (b[2] \div g1))

\* 1.0 / a
RInv(a) ==
    IF IsNaN(a) THEN NaN
    ELSE IF a[2] = 0 THEN Zero
    ELSE IF a[1] = 0 THEN <<1, 0>>
    ELSE <<Sgn(a[1]) * a[2], Abs(a[1])>>

\* a < b ; false when either is NaN
RLt(a, b) ==
    IF IsNaN(a) \/ IsNaN(b) THEN FALSE
    ELSE IF a[2] = 0 /\ b[2] = 0 THEN a[1] < b[1]
    ELSE a[1] * b[2] < b[1] * a[2]

\* a <= b ; false when either is NaN
RLe(a, b) == ~IsNaN(a) /\ ~IsNaN(b) /\ (a = b \/ RLt(a, b))

----------------------------------------------------------------------------
(* Vec4 and Ray of the primitive library *)

Vec4(x, y, z, w) == <<x, y, z, w>>

\* a point of the half-unit grid, w = 1
Point(x2, y2, z2) == Vec4(Rat(x2, 2), Rat(y2, 2), Rat(z2, 2), One)

\* a direction of the half-unit grid, w = 0
Dir(x2, y2, z2) == Vec4(Rat(x2, 2), Rat(y2, 2), Rat(z2, 2), Zero)

\* &a - &b
VSub(a, b) == <<RSub(a[1], b[1]), RSub(a[2], b[2]), RSub(a[3], b[3]), RSub(a[4], b[4])>>

\* a + b
VAdd(a, b) == <<RAdd(a[1], b[1]), RAdd(a[2], b[2]), RAdd(a[3], b[3]), RAdd(a[4], b[4])>>

\* &a * s  (Vec4 times f32)
VScale(a, s) == <<RMul(a[1], s), RMul(a[2], s), RMul(a[3], s), RMul(a[4], s)>>

\* &a * &b  (Vec4 times Vec4 is the cross product, w = 0)
cross(a, b) ==
    Vec4(RSub(RMul(a[2], b[3]), RMul(a[3], b[2])),
         RSub(RMul(a[3], b[1]), RMul(a[1], b[3])),
         RSub(RMul(a[1], b[2]), RMul(a[2], b[1])),
         Zero)

\* Vec4::dot
dot(a, b) ==
    RAdd(RAdd(RAdd(RMul(a[1], b[1]), RMul(a[2], b[2])), RMul(a[3], b[3])),
         RMul(a[4], b[4]))

\* Ray::position(ray, t)
position(ray, t) == VAdd(ray.origin, VScale(ray.direction, t))

\* the unit vector of direction d (integers with no common factor); the
\* all-zero direction stands for the NaN vector a zero length gives
Unit(d) == [unit |-> d]

NaNVec == Unit(<<0, 0, 0, 0>>)

\* the integer direction k1:k2:k3:k4 reduced to lowest terms
Primitive(k) ==
    LET g == GCD(GCD(GCD(Abs(k[1]), Abs(k[2])), Abs(k[3])), Abs(k[4]))
    IN  IF g = 0 THEN NaNVec
        ELSE Unit(<<k[1] \div g, k[2] \div g, k[3] \div g, k[4] \div g>>)

LCM(a, b) == (a \div GCD(a, b)) * b

\* Vec4::normalize : v / |v|, kept as the direction of v
normalize(v) ==
    IF \E i \in 1..4 : ~IsFinite(v[i]) THEN NaNVec
    ELSE LET L == LCM(LCM(LCM(v[1][2], v[2][2]), v[3][2]), v[4][2])
         IN  Primitive(<<v[1][1] * (L \div v[1][2]), v[2][1] * (L \div v[2][2]),
                         v[3][1] * (L \div v[3][2]), v[4][1] * (L \div v[4][2])>>)

\* Matrix4x4 values: rows of integers
IDENTITY == <<<<1, 0, 0, 0>>, <<0, 1, 0, 0>>, <<0, 0, 1, 0>>, <<0, 0, 0, 1>>>>

\* inverse of scaling(1/2, 1, 1)
ScaleInv == <<<<2, 0, 0, 0>>, <<0, 1, 0, 0>>, <<0, 0, 1, 0>>, <<0, 0, 0, 1>>>>

\* inverse of a quarter turn about z followed by a translation
TurnInv == <<<<0, 1, 0, -1>>, <<-1, 0, 0, 0>>, <<0, 0, 1, 0>>, <<0, 0, 0, 1>>>>

\* transpose(m) * d with the w component discarded
TransposeApply(m, d) ==
    <<m[1][1] * d[1] + m[2][1] * d[2] + m[3][1] * d[3] + m[4][1] * d[4],
      m[1][2] * d[1] + m[2][2] * d[2] + m[3][2] * d[3] + m[4][2] * d[4],
      m[1][3] * d[1] + m[2][3] * d[2] + m[3][3] * d[3] + m[4][3] * d[4],
      0>>

\* normal_to_world: the inverse-transpose rule once per ancestor, in the
\* order of the chain, normalizing after each application
RECURSIVE normal_to_world(_, _)
normal_to_world(parent_inverses, n) ==
    IF parent_inverses = <<>> THEN n
    ELSE normal_to_world(Tail(parent_inverses),
                         Primitive(TransposeApply(Head(parent_inverses), n.unit)))

\* the determinant threshold of misc::utils
EPSILON_BUMP == Rat(1, 10000)

----------------------------------------------------------------------------
(* Option, Material *)

None == [some |-> FALSE]

Some(x) == [some |-> TRUE, val |-> x]

\* Material::default()
DefaultMaterial == "default"

----------------------------------------------------------------------------
(* SmoothTriangle: construction *)

default ==
    [p1 |-> Point(0, 2, 0), p2 |-> Point(-2, 0, 0), p3 |-> Point(2, 0, 0),
     n1 |-> Dir(0, 2, 0), n2 |-> Dir(-2, 0, 0), n3 |-> Dir(2, 0, 0),
     e1 |-> Dir(-2, -2, 0), e2 |-> Dir(2, -2, 0),
     material |-> DefaultMaterial,
     parent_inverses |-> <<>>,
     parent_material |-> None]

\* new with e2 taken from p2 in place of p1
new_wrong_edge(p1, p2, p3, n1, n2, n3, material) ==
    [e1 |-> VSub(p2, p1), e2 |-> VSub(p3, p2),
     p1 |-> p1, p2 |-> p2, p3 |-> p3,
     n1 |-> n1, n2 |-> n2, n3 |-> n3,
     material |-> material,
     parent_inverses |-> <<>>,
     parent_material |-> None]

new(p1, p2, p3, n1, n2, n3, material) ==
    [e1 |-> VSub(p2, p1), e2 |-> VSub(p3, p1),
     p1 |-> p1, p2 |-> p2, p3 |-> p3,
     n1 |-> n1, n2 |-> n2, n3 |-> n3,
     material |-> material,
     parent_inverses |-> <<>>,
     parent_material |-> None]

----------------------------------------------------------------------------
(* SmoothTriangle: the Object interface *)

get_material(self) == self.material

get_inverse(self) == IDENTITY

get_parent_inverses(self) == self.parent_inverses

get_parent_material(self) == self.parent_material

\* weighted with the weights of n2 and n3 exchanged
weighted_swapped(self, u, v) ==
    VAdd(VAdd(VScale(self.n3, u), VScale(self.n2, v)),
         VScale(self.n1, RSub(RSub(One, u), v)))

\* the weighted sum of line 107 before it is normalized
weighted(self, u, v) ==
    VAdd(VAdd(VScale(self.n2, u), VScale(self.n3, v)),
         VScale(self.n1, RSub(RSub(One, u), v)))

Panic == [panic |-> TRUE]

\* normal with unwrap_or(0.0) in place of unwrap()
normal_lenient(self, world_point, u, v) ==
    normal_to_world(self.parent_inverses,
                    normalize(weighted(self, IF u.some THEN u.val ELSE Zero,
                                             IF v.some THEN v.val ELSE Zero)))

\* u.unwrap() / v.unwrap() panic on None
normal(self, world_point, u, v) ==
    IF ~u.some \/ ~v.some THEN Panic
    ELSE normal_to_world(self.parent_inverses, normalize(weighted(self, u.val, v.val)))

\* the determinant test without abs()
detRejected_signed(det) == RLe(det, EPSILON_BUMP)

\* the determinant test with the comparison inverted
detRejected_inverted(det) == RLe(EPSILON_BUMP, RAbs(det))

\* line 76
detRejected(det) == RLe(RAbs(det), EPSILON_BUMP)

\* the u test with u >= 1.0 in place of u > 1.0
uRejected_strict(u) == RLt(u, Zero) \/ RLe(One, u)

\* line 82
uRejected(u) == RLt(u, Zero) \/ RLt(One, u)

\* the v test with v > 1.0 in place of (u + v) > 1.0
vRejected_alone(u, v) == RLt(v, Zero) \/ RLt(One, v)

\* line 87
vRejected(u, v) == RLt(v, Zero) \/ RLt(One, RAdd(u, v))

\* Intersection::new_uv
new_uv(t, point, n, object, u, v) ==
    [t |-> t, point |-> point, normal |-> n, object |-> object, u |-> u, v |-> v]

intersect(self, ray) ==
    LET dir_cross_e2 == cross(ray.direction, self.e2)
        det == dot(self.e1, dir_cross_e2)
    IN  IF detRejected(det) THEN None
        ELSE
        LET f == RInv(det)
            p1_to_origin == VSub(ray.origin, self.p1)
            u == RMul(f, dot(p1_to_origin, dir_cross_e2))
        IN  IF uRejected(u) THEN None
            ELSE
            LET origin_cross_e1 == cross(p1_to_origin, self.e1)
                v == RMul(f, dot(ray.direction, origin_cross_e1))
            IN  IF vRejected(u, v) THEN None
                ELSE
                LET t == RMul(f, dot(self.e2, origin_cross_e1))
                IN  Some(<<new_uv(t, position(ray, t),
                                  normal(self, position(ray, t), Some(u), Some(v)),
                                  self, u, v)>>)

\* push_parent_inverse that replaces the chain by the new entry
push_parent_inverse_reset(self, inverse) ==
    [self EXCEPT !.parent_inverses = <<inverse>>]

push_parent_inverse(self, inverse) ==
    [self EXCEPT !.parent_inverses = Append(@, inverse)]

\* set_parent_material that also drops the ancestor chain
set_parent_material_clearing(self, material) ==
    [self EXCEPT !.parent_material = Some(material), !.parent_inverses = <<>>]

set_parent_material(self, material) ==
    [self EXCEPT !.parent_material = Some(material)]

\* add_to_group that hands the triangle its own material as parent material
add_to_group_own_material(self, group) ==
    LET s1 == push_parent_inverse(self, group.inverse)
        s2 == set_parent_material(s1, self.material)
    IN  [group EXCEPT !.objects = Append(@, s2)]

\* the group after add_to_group(self, group); self is moved into it
add_to_group(self, group) ==
    LET s1 == push_parent_inverse(self, group.inverse)
        s2 == set_parent_material(s1, group.material)
    IN  [group EXCEPT !.objects = Append(@, s2)]

----------------------------------------------------------------------------
(* Inputs *)

\* the arguments new() is called with
NewArgs ==
    { \* a zero-area triangle: three collinear vertices
      <<Point(0, 0, 0), Point(1, 0, 0), Point(2, 0, 0),
        Dir(0, 0, 2), Dir(0, 2, 0), Dir(2, 0, 0), "glass">>,
      \* winding opposite to the default triangle, a determinant that is not
      \* a power of two, normals that are not unit vectors
      <<Point(-2, 0, 0), Point(0, 2, 0), Point(1, 0, 0),
        Dir(0, 0, -4), Dir(0, 2, -2), Dir(2, 0, -2), "metal">>,
      \* a small facet of a fine mesh, 1/1024 of the default triangle
      <<Vec4(Zero, Rat(1, 1024), Zero, One), Vec4(Rat(-1, 1024), Zero, Zero, One),
        Vec4(Rat(1, 1024), Zero, Zero, One),
        Dir(0, 2, 0), Dir(-2, 0, 0), Dir(2, 0, 0), "metal">> }

Triangles ==
    {default} \cup {new(a[1], a[2], a[3], a[4], a[5], a[6], a[7]) : a \in NewArgs}

Origins == {Point(x, y, -4) : x \in (-MaxGrid)..MaxGrid, y \in 0..MaxGrid}

Directions == {Dir(0, 0, 2), Dir(2, 0, 0), Dir(1, 0, 2)}

Rays == {[origin |-> o, direction |-> d] : o \in Origins, d \in Directions}

\* barycentric weights of the points of a triangle the two-sided probe aims at
Barys == {<<Zero, Zero>>, <<One, Zero>>, <<Zero, One>>,
          <<Rat(1, 2), Rat(1, 2)>>, <<Rat(1, 4), Rat(1, 4)>>}

Distances == {One, Rat(2, 1)}

Weights == {None, Some(Zero), Some(One), Some(Rat(1, 2))}

QueryPoints == {Point(0, 0, 0), Point(0, 1, 0)}

\* the query a behaviour issues against the triangle
Calls ==
    {[fn |-> "intersect", ray |-> r] : r \in Rays}
    \cup {[fn |-> "intersect_sides", bary |-> b, direction |-> d, distance |-> s] :
            b \in Barys, d \in Directions, s \in Distances}
    \cup {[fn |-> "normal", point |-> pt, u |-> u, v |-> v] :
            pt \in QueryPoints, u \in Weights, v \in Weights}

GroupIds == {"g1", "g2"}

\* a member of a group that is not a SmoothTriangle
OtherObject == [shape |-> "sphere"]

InitGroups ==
    [g \in GroupIds |->
        IF g = "g1"
        THEN [inverse |-> ScaleInv, material |-> "glass", objects |-> <<>>]
        ELSE [inverse |-> TurnInv, material |-> "metal", objects |-> <<OtherObject>>]]

\* the argument of push_parent_inverse calls made outside add_to_group
PushedInverses == {ScaleInv}

\* the argument of set_parent_material calls made outside add_to_group
SetMaterials == {"glass"}

----------------------------------------------------------------------------
(* State *)

IsTriangle(o) == "p1" \in DOMAIN o

\* where a SmoothTriangle lives: the caller's binding, or a slot of a group
Locs ==
    (IF tri.some THEN {<<"caller", 0>>} ELSE {})
    \cup UNION {{<<g, i>> : i \in {j \in DOMAIN groups[g].objects :
                                        IsTriangle(groups[g].objects[j])}} :
                g \in GroupIds}

TriAt(loc) ==
    IF loc[1] = "caller" THEN tri.val ELSE groups[loc[1]].objects[loc[2]]

\* the receiver of a &mut self method gets the value t
Store(loc, t) ==
    IF loc[1] = "caller"
    THEN tri' = Some(t) /\ groups' = groups
    ELSE tri' = tri /\ groups' = [groups EXCEPT ![loc[1]].objects[loc[2]] = t]

Init ==
    /\ tri \in {Some(t) : t \in Triangles}
    /\ groups = InitGroups
    /\ call \in Calls
    /\ res = [op |-> "none"]

----------------------------------------------------------------------------
(* Operations *)

Intersect ==
    \E loc \in Locs :
        /\ call.fn = "intersect"
        /\ res' = [op |-> "intersect", self |-> TriAt(loc),
                   out |-> intersect(TriAt(loc), call.ray)]
        /\ UNCHANGED <<tri, groups, call>>

\* the point P of the triangle with the weights call.bary
SidesPoint(self) ==
    VAdd(VAdd(self.p1, VScale(self.e1, call.bary[1])), VScale(self.e2, call.bary[2]))

\* the ray that reaches P along call.direction
FrontRay(self) ==
    [origin |-> VSub(SidesPoint(self), VScale(call.direction, call.distance)),
     direction |-> call.direction]

\* the ray that reaches P against call.direction, from the other side
BackRay(self) ==
    [origin |-> VAdd(SidesPoint(self), VScale(call.direction, call.distance)),
     direction |-> VScale(call.direction, RNeg(One))]

\* the same point of the triangle probed from both sides
IntersectSides ==
    \E loc \in Locs :
        /\ call.fn = "intersect_sides"
        /\ res' = [op |-> "intersect_sides", self |-> TriAt(loc),
                   front |-> intersect(TriAt(loc), FrontRay(TriAt(loc))),
                   back |-> intersect(TriAt(loc), BackRay(TriAt(loc)))]
        /\ UNCHANGED <<tri, groups, call>>

Normal ==
    \E loc \in Locs :
        /\ call.fn = "normal"
        /\ res' = [op |-> "normal", self |-> TriAt(loc),
                   out |-> normal(TriAt(loc), call.point, call.u, call.v)]
        /\ UNCHANGED <<tri, groups, call>>

GetMaterial ==
    \E loc \in Locs :
        /\ res' = [op |-> "get_material", self |-> TriAt(loc),
                   out |-> get_material(TriAt(loc))]
        /\ UNCHANGED <<tri, groups, call>>

GetInverse ==
    \E loc \in Locs :
        /\ res' = [op |-> "get_inverse", self |-> TriAt(loc),
                   out |-> get_inverse(TriAt(loc))]
        /\ UNCHANGED <<tri, groups, call>>

GetParentInverses ==
    \E loc \in Locs :
        /\ res' = [op |-> "get_parent_inverses", self |-> TriAt(loc),
                   out |-> get_parent_inverses(TriAt(loc))]
        /\ UNCHANGED <<tri, groups, call>>

GetParentMaterial ==
    \E loc \in Locs :
        /\ res' = [op |-> "get_parent_material", self |-> TriAt(loc),
                   out |-> get_parent_material(TriAt(loc))]
        /\ UNCHANGED <<tri, groups, call>>

PushParentInverse ==
    \E loc \in Locs, m \in PushedInverses :
        /\ Len(TriAt(loc).parent_inverses) < MaxInverses
        /\ Store(loc, push_parent_inverse(TriAt(loc), m))
        /\ res' = [op |-> "push_parent_inverse"]
        /\ UNCHANGED call

SetParentMaterial ==
    \E loc \in Locs, m \in SetMaterials :
        /\ Store(loc, set_parent_material(TriAt(loc), m))
        /\ res' = [op |-> "set_parent_material"]
        /\ UNCHANGED call

\* add_to_group takes self by value: only a triangle the caller still owns
AddToGroup ==
    \E g \in GroupIds :
        /\ tri.some
        /\ Len(tri.val.parent_inverses) < MaxInverses
        /\ groups' = [groups EXCEPT ![g] = add_to_group(tri.val, groups[g])]
        /\ tri' = None
        /\ res' = [op |-> "add_to_group"]
        /\ UNCHANGED call

Next ==
    \/ Intersect
    \/ IntersectSides
    \/ Normal
    \/ GetMaterial
    \/ GetInverse
    \/ GetParentInverses
    \/ GetParentMaterial
    \/ PushParentInverse
    \/ SetParentMaterial
    \/ AddToGroup

Spec == Init /\ [][Next]_vars

----------------------------------------------------------------------------
(* Properties of intersect *)

\* the intersection records the last call returned
Returned ==
    IF res.op = "intersect" THEN (IF res.out.some THEN {res.out} ELSE {})
    ELSE IF res.op = "intersect_sides"
         THEN {o \in {res.front, res.back} : o.some}
         ELSE {}

\* C1: every intersection record intersect returns carries barycentric
\* coordinates with 0 <= u <= 1, 0 <= v <= 1 and u + v <= 1.
C1_BarycentricInRange ==
    \A o \in Returned : \A k \in DOMAIN o.val :
        /\ RLe(Zero, o.val[k].u) /\ RLe(o.val[k].u, One)
        /\ RLe(Zero, o.val[k].v) /\ RLe(o.val[k].v, One)
        /\ RLe(RAdd(o.val[k].u, o.val[k].v), One)

\* a hit strictly inside a triangle, and a hit on the edge u + v = 1
C1_Witness ==
    /\ res.op = "intersect" /\ res.out.some
    /\ RLt(Zero, res.out.val[1].u) /\ RLt(Zero, res.out.val[1].v)
    /\ RLt(RAdd(res.out.val[1].u, res.out.val[1].v), One)

\* det, u and v of the claim, from e1, e2, p1 and the ray
DetOf(self, ray) == dot(self.e1, cross(ray.direction, self.e2))

UOf(self, ray) ==
    RMul(RInv(DetOf(self, ray)),
         dot(VSub(ray.origin, self.p1), cross(ray.direction, self.e2)))

VOf(self, ray) ==
    RMul(RInv(DetOf(self, ray)),
         dot(ray.direction, cross(VSub(ray.origin, self.p1), self.e1)))

HitCondition(self, ray) ==
    /\ RLt(EPSILON_BUMP, RAbs(DetOf(self, ray)))
    /\ RLe(Zero, UOf(self, ray)) /\ RLe(UOf(self, ray), One)
    /\ RLe(Zero, VOf(self, ray))
    /\ RLe(RAdd(UOf(self, ray), VOf(self, ray)), One)

HasDefaultGeometry(self) ==
    /\ self.p1 = Point(0, 2, 0) /\ self.p2 = Point(-2, 0, 0) /\ self.p3 = Point(2, 0, 0)

ScenarioHitRay == [origin |-> Point(0, 1, -4), direction |-> Dir(0, 0, 2)]

ScenarioMissRay == [origin |-> Point(2, 2, -4), direction |-> Dir(0, 0, 2)]

\* C2: intersect returns exactly one record when |det| > EPSILON_BUMP,
\* 0 <= u <= 1, v >= 0 and u + v <= 1, and None (a value, no failure) in
\* every other case; the default triangle is hit with t > 0 by the ray from
\* (0, 0.5, -2) along +z and missed by the ray from (1, 1, -2) along +z.
C2_OneOrNone ==
    res.op = "intersect" =>
        /\ HitCondition(res.self, call.ray) =>
              res.out.some /\ Len(res.out.val) = 1 /\ res.out.val[1].normal # Panic
        /\ ~HitCondition(res.self, call.ray) => res.out = None
        /\ (HasDefaultGeometry(res.self) /\ call.ray = ScenarioHitRay) =>
              res.out.some /\ RLt(Zero, res.out.val[1].t)
        /\ (HasDefaultGeometry(res.self) /\ call.ray = ScenarioMissRay) =>
              res.out = None

\* the default triangle hit by the scenario ray at t = 2
C2_Witness ==
    /\ res.op = "intersect" /\ HasDefaultGeometry(res.self)
    /\ call.ray = ScenarioHitRay
    /\ res.out.some /\ res.out.val[1].t = Rat(2, 1)

IsZeroVec(a) == \A i \in 1..4 : a[i] = Zero

\* the direction lies in the plane of the triangle (or the triangle has none)
Parallel(self, direction) == dot(direction, cross(self.e1, self.e2)) = Zero

\* C3: a ray whose direction is parallel to the triangle's plane is never
\* reported as a hit, whatever its origin, and a zero-area triangle is never
\* hit by any ray.
C3_ParallelMisses ==
    /\ (res.op = "intersect" /\ Parallel(res.self, call.ray.direction)) =>
          res.out = None
    /\ (res.op = "intersect" /\ IsZeroVec(cross(res.self.e1, res.self.e2))) =>
          res.out = None
    /\ (res.op = "intersect_sides" /\ Parallel(res.self, call.direction)) =>
          res.front = None /\ res.back = None

\* a ray in the plane direction aimed at a triangle of positive area
C3_Witness ==
    /\ res.op = "intersect" /\ res.out = None
    /\ Parallel(res.self, call.ray.direction)
    /\ ~IsZeroVec(cross(res.self.e1, res.self.e2))

\* a ray that crosses the plane of a zero-area triangle
C3_WitnessDegenerate ==
    /\ res.op = "intersect" /\ res.out = None
    /\ IsZeroVec(cross(res.self.e1, res.self.e2))
    /\ call.ray.direction = Dir(0, 0, 2)

\* C4 as stated: the two rays through a point of the triangle, one from each
\* side of its plane, both return an intersection, with the same t.
C4_BothSidesAlwaysHit ==
    (res.op = "intersect_sides" /\ ~Parallel(res.self, call.direction)) =>
        /\ res.front.some /\ res.back.some
        /\ res.front.val[1].t = res.back.val[1].t

\* C4 amended: the two rays agree on hit or miss whatever the sign of det,
\* and when |det| > EPSILON_BUMP both hit and report the same t, the
\* distance the probe started from.
C4_BothSidesAgree ==
    res.op = "intersect_sides" =>
        /\ res.front.some <=> res.back.some
        /\ RLt(EPSILON_BUMP, RAbs(DetOf(res.self, FrontRay(res.self)))) =>
              /\ res.front.some /\ res.back.some
              /\ res.front.val[1].t = res.back.val[1].t
              /\ res.front.val[1].t = call.distance

\* both sides of the default triangle hit at the same t, det of opposite sign
C4_Witness ==
    /\ res.op = "intersect_sides"
    /\ res.front.some /\ res.back.some
    /\ res.front.val[1].t = res.back.val[1].t
    /\ RLt(DetOf(res.self, FrontRay(res.self)), Zero)
    /\ RLt(Zero, DetOf(res.self, BackRay(res.self)))

----------------------------------------------------------------------------
(* Properties of the triangle's state *)

\* the one SmoothTriangle of a behaviour, wherever it lives
TheTriangle == TriAt(CHOOSE loc \in Locs : TRUE)

Geometry(t) == <<t.p1, t.p2, t.p3, t.n1, t.n2, t.n3, t.e1, t.e2, t.material>>

IsPrefix(a, b) == Len(a) <= Len(b) /\ SubSeq(b, 1, Len(a)) = a

\* the groups that hold a SmoothTriangle
Holders ==
    {g \in GroupIds : \E i \in DOMAIN groups[g].objects : IsTriangle(groups[g].objects[i])}

\* what add_to_group(tri, g) must leave behind
AttachedTo(g) ==
    LET before == groups[g].objects
        after == groups'[g].objects
    IN  /\ Len(after) = Len(before) + 1
        /\ SubSeq(after, 1, Len(before)) = before
        /\ IsTriangle(after[Len(after)])
        /\ after[Len(after)].parent_inverses =
              Append(tri.val.parent_inverses, groups[g].inverse)
        /\ after[Len(after)].parent_material = Some(groups[g].material)
        /\ Geometry(after[Len(after)]) = Geometry(tri.val)
        /\ groups'[g].inverse = groups[g].inverse
        /\ groups'[g].material = groups[g].material
        /\ \A h \in GroupIds \ {g} : groups'[h] = groups[h]

\* C5: add_to_group appends the group's inverse as the last parent inverse,
\* sets parent_material to Some(the group's material) and appends the
\* triangle as the group's last member; geometry, own material, earlier
\* parent inverses and earlier members are unchanged.
C5_AddToGroupEffect ==
    [][res'.op = "add_to_group" /\ tri.some /\ ~tri'.some
          => \E g \in GroupIds : AttachedTo(g)]_vars

\* a triangle that already had a parent inverse, attached behind an earlier
\* member of its group
C5_Witness ==
    /\ res.op = "add_to_group" /\ ~tri.some
    /\ \E g \in GroupIds :
          /\ Len(groups[g].objects) = 2
          /\ Len(groups[g].objects[2].parent_inverses) = 2
          /\ groups[g].objects[2].parent_inverses[2] = groups[g].inverse
          /\ groups[g].objects[2].parent_material = Some(groups[g].material)

\* C6 as stated: parent_inverses and parent_material are changed by the
\* group attachment only.
C6_OnlyAttachmentMutates ==
    [][(TheTriangle.parent_inverses' # TheTriangle.parent_inverses
        \/ TheTriangle.parent_material' # TheTriangle.parent_material)
          => res'.op = "add_to_group"]_vars

\* C6 amended: parent_inverses changes only in push_parent_inverse and
\* add_to_group, by one appended entry; parent_material changes only in
\* set_parent_material and add_to_group; no other operation changes either,
\* and none changes the geometry.
C6_OnlyMutatorsMutate ==
    [][/\ TheTriangle.parent_inverses' # TheTriangle.parent_inverses
            => /\ res'.op \in {"push_parent_inverse", "add_to_group"}
               /\ Len(TheTriangle.parent_inverses') = Len(TheTriangle.parent_inverses) + 1
               /\ IsPrefix(TheTriangle.parent_inverses, TheTriangle.parent_inverses')
       /\ TheTriangle.parent_material' # TheTriangle.parent_material
            => res'.op \in {"set_parent_material", "add_to_group"}
       /\ res'.op \notin {"push_parent_inverse", "set_parent_material", "add_to_group"}
            => UNCHANGED <<tri, groups>>]_vars

\* a triangle that was mutated by push_parent_inverse and set_parent_material
\* before it was attached, and by push_parent_inverse again afterwards
C6_Witness ==
    /\ res.op = "push_parent_inverse" /\ ~tri.some
    /\ TheTriangle.parent_inverses = <<ScaleInv, TurnInv, ScaleInv>>
          \/ TheTriangle.parent_inverses = <<TurnInv, ScaleInv>>
    /\ TheTriangle.parent_material = Some("glass")

\* C7: every triangle, however constructed and whatever was called on it,
\* has e1 = p2 - p1 and e2 = p3 - p1.
C7_EdgesMatchVertices ==
    \A loc \in Locs :
        /\ TriAt(loc).e1 = VSub(TriAt(loc).p2, TriAt(loc).p1)
        /\ TriAt(loc).e2 = VSub(TriAt(loc).p3, TriAt(loc).p1)

\* a triangle built by new(), attached to a group and intersected there
C7_Witness ==
    /\ ~tri.some /\ res.op = "intersect" /\ res.out.some
    /\ ~HasDefaultGeometry(TheTriangle)
    /\ Len(TheTriangle.parent_inverses) = 2

----------------------------------------------------------------------------
(* Properties of normal *)

\* C8: with no ancestor transforms normal returns normalize(n1) at (0, 0),
\* normalize(n2) at (1, 0) and normalize(n3) at (0, 1), for every point.
C8_VertexNormals ==
    (res.op = "normal" /\ res.self.parent_inverses = <<>>) =>
        /\ (call.u = Some(Zero) /\ call.v = Some(Zero)) => res.out = normalize(res.self.n1)
        /\ (call.u = Some(One) /\ call.v = Some(Zero)) => res.out = normalize(res.self.n2)
        /\ (call.u = Some(Zero) /\ call.v = Some(One)) => res.out = normalize(res.self.n3)

\* normal at p2 of a triangle whose three vertex normals differ and are not
\* unit vectors
C8_Witness ==
    /\ res.op = "normal" /\ res.self.parent_inverses = <<>>
    /\ call.u = Some(One) /\ call.v = Some(Zero)
    /\ res.out = Unit(<<0, 1, -1, 0>>)
    /\ res.self.n2 = Dir(0, 2, -2)
    /\ call.point = Point(0, 1, 0)

\* C9: normal called without u or without v fails and leaves the triangle
\* unchanged; it returns a normal exactly when both are present.
C9_NormalNeedsWeights ==
    [][res'.op = "normal" =>
          /\ res'.out = Panic <=> (~call.u.some \/ ~call.v.some)
          /\ UNCHANGED <<tri, groups>>]_vars

\* normal called with v but without u
C9_Witness ==
    /\ res.op = "normal" /\ ~call.u.some /\ call.v.some
    /\ res.out = Panic

----------------------------------------------------------------------------
(* Properties of the attachment *)

\* C10: a triangle that is a member of a group stays a member of that group
\* at the same place, keeps a parent material, loses no parent inverse, and
\* no other group ever holds it.
C10_AttachedForever ==
    [][\A g \in Holders :
          /\ Holders' = {g}
          /\ tri' = None
          /\ \A i \in DOMAIN groups[g].objects :
                IsTriangle(groups[g].objects[i]) =>
                    /\ i \in DOMAIN groups'[g].objects
                    /\ IsTriangle(groups'[g].objects[i])
                    /\ groups'[g].objects[i].parent_material.some
                    /\ groups'[g].objects[i].parent_inverses # <<>>
                    /\ IsPrefix(groups[g].objects[i].parent_inverses,
                                groups'[g].objects[i].parent_inverses)
                    /\ Geometry(groups'[g].objects[i]) = Geometry(groups[g].objects[i])]_vars

\* an attached triangle whose parent material was set again after the
\* attachment and whose chain grew
C10_Witness ==
    /\ ~tri.some /\ Holders = {"g2"}
    /\ TheTriangle.parent_material = Some("glass")
    /\ TheTriangle.parent_inverses = <<TurnInv, ScaleInv>>

====
